---- MODULE Spec2Model ----
(***************************************************************************)
(* A model of the openskills MCP server (src/openskills-mcp.js): the skill *)
(* roots on the filesystem, the catalog build (list_skills), the single    *)
(* resolution (load_skill), the load record store (skillCache and its      *)
(* file) and the command executor (execute_skill).                         *)
(*                                                                         *)
(* Texts (file contents, names) are sequences of one-character strings, so *)
(* that the regular expressions of extractYamlField and String.trim are    *)
(* computed character by character.  Paths are sequences of components.    *)
(***************************************************************************)
EXTENDS Integers, Sequences, FiniteSets, TLC

VARIABLES
    fs,          \* the filesystem under the four skill roots
    pc,          \* position of the list_skills / load_skill request
    skills,      \* list_skills: the array findAllSkills returned
    searched,    \* the roots getSearchDirs gave to that findAllSkills call
    response,    \* the result the CallTool handler returned
    last,        \* which operation produced the current state
    skillCache,  \* the in-memory Map of load records
    cacheFile,   \* the content of CACHE_FILE
    clock,       \* Date.now()
    process,     \* "running" or "crashed"
    callState,   \* execute_skill: the promise ("idle", "pending", "resolved")
    outcome,     \* execute_skill: the value the promise resolved with
    child,       \* the spawned shell ("none", "spawnfail", "running", "exited")
    command,     \* what the spawned command line is
    exitCode,    \* the shell's exit status once it has exited
    pipes,       \* whether the child's stdio streams are still open
    holders,     \* descendants of the shell that hold its stdio streams
    stdout,      \* the handler's stdout accumulator
    stderr,      \* the handler's stderr accumulator
    timer,       \* the 60 s timer ("none", "pending", "fired", "cleared")
    emitted,     \* the child events delivered so far
    produced,    \* number of data chunks the command has written
    document,    \* extractYamlField: the content argument
    wanted,      \* extractYamlField: the field argument
    extracted,   \* extractYamlField: what it returned
    logged,      \* the warnings findAllSkills wrote with console.error
    peerCache,   \* skillCache of a second server process of the same user
    written      \* the bytes the command's processes wrote, per stream

indexVars == <<fs, pc, skills, searched, response, last>>
storeVars == <<skillCache, cacheFile, clock, process>>
execVars  == <<callState, outcome, child, command, exitCode, pipes, holders,
               stdout, stderr, timer, emitted, produced>>
textVars  == <<document, wanted, extracted>>
vars == <<indexVars, storeVars, execVars, textVars, logged, peerCache, written>>

----------------------------------------------------------------------------
(* Bounds of the model. *)

\* At most this many directory entries exist under the skill roots.
MaxEntries == 2
\* At most this many skill roots exist without being listable.
MaxUnlistable == 1
\* Date.now() takes the values 0..MaxClock.
MaxClock == 2
\* A command writes at most this many data chunks.
MaxChunks == 2

----------------------------------------------------------------------------
(* Texts. *)

Null == <<"null">>

WS == {" ", "\t", "\n", "\r"}

LineTerminators == {"\n", "\r"}

RECURSIVE TrimStart(_)
TrimStart(s) ==
    IF s # <<>> /\ Head(s) \in WS THEN TrimStart(Tail(s)) ELSE s

RECURSIVE TrimEnd(_)
TrimEnd(s) ==
    IF s # <<>> /\ s[Len(s)] \in WS THEN TrimEnd(SubSeq(s, 1, Len(s) - 1)) ELSE s

\* String.prototype.trim
Trim(s) == TrimEnd(TrimStart(s))

Max(S) == CHOOSE x \in S : \A y \in S : y <= x

Min(S) == CHOOSE x \in S : \A y \in S : x <= y

IsAt(s, i, t) ==
    /\ i >= 1
    /\ i + Len(t) - 1 <= Len(s)
    /\ \A k \in 1..Len(t) : s[i + k - 1] = t[k]

\* /^---\s*\n([\s\S]*?)\n---/ : the positions i where \s*\n may end (the
\* text starts with ---, whitespace follows up to a newline at i) ...
OpenEnds(content) ==
    {i \in 4..Len(content) :
        /\ IsAt(content, 1, <<"-", "-", "-">>)
        /\ content[i] = "\n"
        /\ \A k \in 4..(i - 1) : content[k] \in WS}

\* ... and the positions j where the closing \n--- may start.
CloseStarts(content) ==
    {j \in 1..Len(content) : IsAt(content, j, <<"\n", "-", "-", "-">>)}

\* The matches <<i, j>>: the closing line starts after the opening one ends.
HeaderMatches(content) ==
    {m \in OpenEnds(content) \X CloseStarts(content) : m[2] > m[1]}

\* The capture group of the header match: \s* is greedy (the last possible
\* i), the body is lazy (the first possible j after it).
HeaderBody(content) ==
    LET ms == HeaderMatches(content)
        i  == Max({m[1] : m \in ms})
        j  == Min({m[2] : m \in {x \in ms : x[1] = i}})
    IN  SubSeq(content, i + 1, j - 1)

\* The end of the line that holds position c (. matches no line terminator).
LineEnd(yaml, c) ==
    IF \E e \in c..Len(yaml) : yaml[e] \in LineTerminators
    THEN Min({e \in c..Len(yaml) : yaml[e] \in LineTerminators}) - 1
    ELSE Len(yaml)

\* new RegExp(`^${field}:\\s*(.+)$`, "m") tried at line start s: the set of
\* positions where the capture group may start (after a run of whitespace
\* that follows the colon, line breaks included).
CaptureStarts(yaml, field, s) ==
    LET p == s + Len(field) + 1
    IN  {c \in p..Len(yaml) :
            /\ \A k \in p..(c - 1) : yaml[k] \in WS
            /\ yaml[c] \notin LineTerminators}

FieldMatchesAt(yaml, field, s) ==
    /\ s = 1 \/ yaml[s - 1] \in LineTerminators
    /\ IsAt(yaml, s, field \o <<":">>)
    /\ CaptureStarts(yaml, field, s) # {}

\* The capture group of the first match (leftmost line, greedy \s*).
FieldCapture(yaml, field) ==
    LET s == Min({x \in 1..Len(yaml) : FieldMatchesAt(yaml, field, x)})
        c == Max(CaptureStarts(yaml, field, s))
    IN  SubSeq(yaml, c, LineEnd(yaml, c))

extractYamlField(content, field) ==
    IF HeaderMatches(content) = {} THEN Null
    ELSE LET yaml == HeaderBody(content)
         IN  IF \E s \in 1..Len(yaml) : FieldMatchesAt(yaml, field, s)
             THEN Trim(FieldCapture(yaml, field))
             ELSE Null

\* a || b on strings: null and "" are falsy
OrElse(a, b) == IF a = Null \/ a = <<>> THEN b ELSE a

----------------------------------------------------------------------------
(* The filesystem under the skill roots. *)

\* getSearchDirs: the candidate roots, highest priority first.
SearchPaths ==
    << <<"cwd", ".agent", "skills">>,
       <<"home", ".agent", "skills">>,
       <<"cwd", ".claude", "skills">>,
       <<"home", ".claude", "skills">> >>

Roots == 1..Len(SearchPaths)

RootOf(dir) == CHOOSE r \in Roots : SearchPaths[r] = dir

\* The bundle directory names that occur.
NameSeq == << <<"p", "d", "f">>, <<"g", "i", "t">> >>

Names == {NameSeq[i] : i \in 1..Len(NameSeq)}

\* The SKILL.md documents that occur under the four roots.
DocIds == {"docNamed", "docBare"}

\* The SKILL.md documents that occur in the single-directory variant: with a
\* name and a description, without a header, with a header that has no
\* description line, with a description of blanks, and with a description
\* line that ends at the colon and is followed by another line.
DirDocIds == DocIds \cup {"docNoDesc", "docBlankDesc", "docEmptyDesc"}

DocText(d) ==
    CASE d = "docNamed" ->
            <<"-", "-", "-", "\n",
              "n", "a", "m", "e", ":", " ", "x", "\n",
              "d", "e", "s", "c", "r", "i", "p", "t", "i", "o", "n", ":", " ", "d", "\n",
              "-", "-", "-", "\n", "B", "\n">>
      [] d = "docNoDesc" ->
            <<"-", "-", "-", "\n",
              "n", "a", "m", "e", ":", " ", "x", "\n",
              "-", "-", "-", "\n", "B", "\n">>
      [] d = "docBlankDesc" ->
            <<"-", "-", "-", "\n",
              "d", "e", "s", "c", "r", "i", "p", "t", "i", "o", "n", ":", " ", " ", "\n",
              "-", "-", "-", "\n", "B", "\n">>
      [] d = "docEmptyDesc" ->
            <<"-", "-", "-", "\n",
              "d", "e", "s", "c", "r", "i", "p", "t", "i", "o", "n", ":", "\n",
              "n", "a", "m", "e", ":", " ", "x", "\n",
              "-", "-", "-", "\n", "B", "\n">>
      [] OTHER -> <<"B", "\n">>

\* What <root>/<name> is: nothing, a regular file, a directory (or a symbolic
\* link) without SKILL.md, a directory whose SKILL.md exists and cannot be
\* read (no permission, or SKILL.md is itself a directory), or a directory
\* whose SKILL.md holds the document named.
EntryKinds == {"none", "file", "dir", "unreadable"} \cup DocIds

\* A root is absent, exists without being listable (it is a regular file, or
\* a directory without permissions: nothing is reached through it), or is a
\* listable directory.
RootKinds == {"absent", "unlistable", "ok"}

\* cwdInHome: whether the path of the working directory contains the path of
\* the home directory (it does for a project kept under the home directory).
EmptyFs(inHome) ==
    [root |-> [r \in Roots |-> "absent"],
     ent  |-> [r \in Roots |-> [n \in Names |-> "none"]],
     cwdInHome |-> inHome]

EntryCount(f) ==
    Cardinality({x \in Roots \X Names : f.ent[x[1]][x[2]] # "none"})

UnlistableCount(f) == Cardinality({r \in Roots : f.root[r] = "unlistable"})

\* fs.existsSync(dir) for a root
existsSync(f, dir) == f.root[RootOf(dir)] # "absent"

\* fs.existsSync(path.join(dir, skillName, "SKILL.md"))
existsSkillMd(f, dir, skillName) ==
    /\ skillName \in Names
    /\ f.ent[RootOf(dir)][skillName] \notin {"none", "file", "dir"}

\* fs.readFileSync(skillMdPath, "utf-8") throws
readFails(f, dir, skillName) == f.ent[RootOf(dir)][skillName] = "unreadable"

readFileSync(f, dir, skillName) == DocText(f.ent[RootOf(dir)][skillName])

\* fs.readdirSync(dir, {withFileTypes: true}) throws
readdirFails(f, dir) == f.root[RootOf(dir)] # "ok"

\* path.join(dir, skillName)
SkillPath(dir, skillName) == Append(dir, skillName)

getSearchDirs(f) == SelectSeq(SearchPaths, LAMBDA dir : existsSync(f, dir))

----------------------------------------------------------------------------
(* Skill Index: catalog build and single resolution. *)

\* A JavaScript Map is a sequence of <<key, value>> pairs in insertion order.
MapHas(m, k) == \E i \in 1..Len(m) : m[i][1] = k

MapGet(m, k) == m[CHOOSE i \in 1..Len(m) : m[i][1] = k][2]

MapSet(m, k, v) ==
    IF MapHas(m, k)
    THEN [i \in 1..Len(m) |-> IF m[i][1] = k THEN <<k, v>> ELSE m[i]]
    ELSE Append(m, <<k, v>>)

MapKeys(m) == {m[i][1] : i \in 1..Len(m)}

MapValues(m) == [i \in 1..Len(m) |-> m[i][2]]

\* dir.includes(os.homedir())
IncludesHome(f, dir) == dir[1] = "home" \/ f.cwdInHome

\* dir.includes(".agent")
IncludesAgent(dir) == \E i \in 1..Len(dir) : dir[i] = ".agent"

Location(f, dir) ==
    IF IncludesAgent(dir)
    THEN (IF IncludesHome(f, dir) THEN "global-universal" ELSE "project-universal")
    ELSE (IF IncludesHome(f, dir) THEN "global" ELSE "project")

\* The catalog entry of a bundle whose SKILL.md was read.
SkillEntry(f, dir, skillName) ==
    LET content == readFileSync(f, dir, skillName)
    IN  [name        |-> OrElse(extractYamlField(content, <<"n", "a", "m", "e">>),
                                skillName),
         description |-> OrElse(extractYamlField(content,
                                    <<"d", "e", "s", "c", "r", "i", "p", "t", "i", "o", "n">>),
                                <<>>),
         location    |-> Location(f, dir),
         path        |-> SkillPath(dir, skillName)]

\* Accepts without the skills.has(skillName) test: a lower-priority root's
\* bundle replaces the one already found.
AcceptsShadowed(f, dir, skillName, found) ==
    /\ f.ent[RootOf(dir)][skillName] \notin {"none", "file", "dir", "unreadable"}

\* Whether findAllSkills records the entry skillName of dir, given the Map of
\* the skills found so far.
Accepts(f, dir, skillName, found) ==
    /\ f.ent[RootOf(dir)][skillName] # "none"      \* readdirSync lists it
    /\ f.ent[RootOf(dir)][skillName] # "file"      \* isDirectory or isSymbolicLink
    /\ ~MapHas(found, skillName)                   \* not found in an earlier root
    /\ existsSkillMd(f, dir, skillName)
    /\ ~readFails(f, dir, skillName)               \* else: warning, nothing recorded

\* The inner loop of findAllSkills, from the i-th entry of dir on.
RECURSIVE ScanEntries(_, _, _, _)
ScanEntries(f, dir, i, found) ==
    IF i > Len(NameSeq) THEN found
    ELSE ScanEntries(f, dir, i + 1,
            IF Accepts(f, dir, NameSeq[i], found)
            THEN MapSet(found, NameSeq[i], SkillEntry(f, dir, NameSeq[i]))
            ELSE found)

\* The outer loop of findAllSkills, from the k-th root on.
RECURSIVE ScanDirs(_, _, _, _)
ScanDirs(f, dirs, k, found) ==
    IF k > Len(dirs) THEN found
    ELSE ScanDirs(f, dirs, k + 1,
            IF readdirFails(f, dirs[k]) THEN found
            ELSE ScanEntries(f, dirs[k], 1, found))

findAllSkills(f) == MapValues(ScanDirs(f, getSearchDirs(f), 1, <<>>))

\* console.error(`[Warn] Failed to read ${skillMdPath}:`, err.message): the
\* entries of the k-th root whose SKILL.md is reached and cannot be read.  The
\* catch around readdirSync writes nothing.
WarningsOf(f, dirs, k) ==
    LET found == ScanDirs(f, SubSeq(dirs, 1, k - 1), 1, <<>>)
    IN  IF readdirFails(f, dirs[k]) THEN {}
        ELSE {[warn |-> "Failed to read", path |-> SkillPath(dirs[k], n)] :
                n \in {x \in Names :
                          /\ f.ent[RootOf(dirs[k])][x] \notin {"none", "file"}
                          /\ ~MapHas(found, x)
                          /\ existsSkillMd(f, dirs[k], x)
                          /\ readFails(f, dirs[k], x)}}

findAllSkillsWarnings(f) ==
    LET dirs == getSearchDirs(f)
    IN  UNION {WarningsOf(f, dirs, k) : k \in 1..Len(dirs)}

\* findSkill: the first root, in priority order, under which SKILL.md exists
\* (found = FALSE models the null it returns otherwise).
RECURSIVE FindFrom(_, _, _, _)
FindFrom(f, dirs, k, skillName) ==
    IF k > Len(dirs) THEN [found |-> FALSE]
    ELSE IF existsSkillMd(f, dirs[k], skillName)
         THEN [found |-> TRUE, dir |-> dirs[k],
               skillPath |-> SkillPath(dirs[k], skillName)]
         ELSE FindFrom(f, dirs, k + 1, skillName)

\* Reverse of a sequence.
Reverse(q) == [i \in 1..Len(q) |-> q[Len(q) + 1 - i]]

\* findSkill walking the roots lowest priority first.
findSkillLowest(f, skillName) ==
    FindFrom(f, Reverse(getSearchDirs(f)), 1, skillName)

findSkill(f, skillName) == FindFrom(f, getSearchDirs(f), 1, skillName)

\* loadSkillDirect: what it returns, or the message of the error it throws.
loadSkillDirect(f, skillName) ==
    LET found == findSkill(f, skillName)
    IN  IF ~found.found
        THEN [threw |-> TRUE,
              message |-> <<"Skill not found: ", skillName>>]
        ELSE IF readFails(f, found.dir, skillName)
        THEN [threw |-> TRUE,
              message |-> <<"read failed: ", found.skillPath>>]
        ELSE [threw     |-> FALSE,
              skillName |-> skillName,
              baseDir   |-> found.skillPath,
              content   |-> Trim(readFileSync(f, found.dir, skillName))]

----------------------------------------------------------------------------
(* Load Record Store. *)

\* The content of CACHE_FILE: no file, or a text that is not JSON, or the
\* JSON value the text denotes (null, a number, an array, an object given by
\* its properties in order).
NoFile == [kind |-> "absent"]

Garbage == [kind |-> "invalid"]

JsonNull == [kind |-> "null"]

JsonNumber == [kind |-> "number"]

JsonArray(items) == [kind |-> "array", items |-> items]

JsonObject(props) == [kind |-> "object", props |-> props]

Digits == <<"0", "1", "2", "3", "4", "5", "6", "7", "8", "9">>

\* Object.entries of an array: its indices, as strings, with its items.
ArrayEntries(items) == [i \in 1..Len(items) |-> << <<Digits[i]>>, items[i] >>]

\* new Map(entries): a later entry of a key replaces the value of the first.
RECURSIVE MapOf(_, _)
MapOf(entries, m) ==
    IF entries = <<>> THEN m
    ELSE MapOf(Tail(entries), MapSet(m, Head(entries)[1], Head(entries)[2]))

\* A start-up that does not read CACHE_FILE.
LoadCacheFileEmpty(file) == <<>>

\* The start-up initialisation of skillCache from CACHE_FILE: no file, a text
\* JSON.parse rejects, or a value Object.entries rejects (null) leave the Map
\* empty; any other JSON value is loaded through Object.entries.
LoadCacheFile(file) ==
    IF file.kind \in {"absent", "invalid", "null", "number"} THEN <<>>
    ELSE IF file.kind = "array" THEN MapOf(ArrayEntries(file.items), <<>>)
    ELSE MapOf(file.props, <<>>)

\* A save that writes the newest record only.
SerializeNewest(m) == JsonObject(<<m[Len(m)]>>)

\* JSON.stringify(Object.fromEntries(skillCache), null, 2)
Serialize(m) == JsonObject(MapOf(m, <<>>))

\* The record load_skill stores.
LoadRecord(skillName, baseDir, now) ==
    [name |-> skillName, baseDir |-> baseDir, loadedAt |-> now]

----------------------------------------------------------------------------
(* The CallTool handler: list_skills and load_skill. *)

Ok(text) == [isError |-> FALSE, text |-> text]

\* The catch block without the isError flag.
CaughtUnflagged(message) == [isError |-> FALSE, text |-> <<"Error: ", message>>]

\* catch (err): the structured error result
Caught(message) == [isError |-> TRUE, text |-> <<"Error: ", message>>]

NoResponse == [isError |-> FALSE, text |-> <<>>]

Did(op, name) == [op |-> op, name |-> name]

\* list_skills, first half: findAllSkills().
ListBuild ==
    /\ pc = "idle"
    /\ process = "running"
    /\ skills' = findAllSkills(fs)
    /\ searched' = getSearchDirs(fs)
    /\ pc' = "built"
    /\ last' = Did("build", <<>>)
    /\ logged' = findAllSkillsWarnings(fs)
    /\ UNCHANGED <<textVars, peerCache, written>>
    /\ UNCHANGED <<fs, response, storeVars, execVars>>

ListText(found, f) ==
    IF Len(found) = 0
    THEN <<"No skills found. Skills directories checked:", getSearchDirs(f)>>
    ELSE <<"Available Skills", Len(found),
           [i \in 1..Len(found) |-> <<found[i].name, found[i].description>>]>>

\* list_skills, second half: the response, which reads the roots again when
\* no skill was found.
ListRespond ==
    /\ pc \in {"built", "raced"}
    /\ response' = Ok(ListText(skills, fs))
    /\ pc' = "done"
    /\ last' = Did("list", <<>>)
    /\ UNCHANGED <<textVars, logged, peerCache, written>>
    /\ UNCHANGED <<fs, skills, searched, storeVars, execVars>>

\* fs.writeFileSync(CACHE_FILE, text): it writes the text, or throws leaving
\* the file as it was (it could not be opened) or cut short (it was opened,
\* which truncates it, and the write failed).
WriteOutcomes(file, text) ==
    {[threw |-> FALSE, file |-> text],
     [threw |-> TRUE, file |-> file],
     [threw |-> TRUE, file |-> Garbage]}

\* load_skill with skill_name = n.
LoadSkill(n) ==
    /\ process = "running"
    /\ LET r == loadSkillDirect(fs, n)
       IN  IF r.threw
           THEN /\ response' = Caught(r.message)
                /\ UNCHANGED <<skillCache, cacheFile>>
           ELSE LET cache == MapSet(skillCache, r.skillName,
                                    LoadRecord(r.skillName, r.baseDir, clock))
                IN  /\ skillCache' = cache
                    /\ \E w \in WriteOutcomes(cacheFile, Serialize(cache)) :
                          /\ cacheFile' = w.file
                          /\ response' =
                                IF w.threw
                                THEN Caught(<<"write failed: ", "CACHE_FILE">>)
                                ELSE Ok(<<"SKILL LOADED", r.skillName,
                                          r.baseDir, r.content>>)
    /\ last' = Did("load", n)
    /\ UNCHANGED <<textVars, logged, peerCache, written>>
    /\ UNCHANGED <<fs, skills, searched, clock, process, execVars>>


----------------------------------------------------------------------------
(* The environment: other programs change the skill roots. *)

\* The roots are changed before a request, or once between the two halves of
\* list_skills (the only place where a request reads the roots twice).
EnvStep ==
    /\ pc = "idle" \/ (pc = "built" /\ Len(skills) = 0)
    /\ pc' = IF pc = "built" THEN "raced" ELSE pc
    /\ last' = Did("env", <<>>)
    /\ UNCHANGED <<textVars, logged, peerCache, written>>

\* mkdir of a root, listable or not
MkRoot(r, kind) ==
    /\ EnvStep
    /\ fs.root[r] = "absent"
    /\ kind \in {"ok", "unlistable"}
    /\ kind = "unlistable" => UnlistableCount(fs) < MaxUnlistable
    /\ fs' = [fs EXCEPT !.root[r] = kind]
    /\ UNCHANGED <<skills, searched, response, storeVars, execVars>>

\* rm -r of a root
RmRoot(r) ==
    /\ EnvStep
    /\ fs.root[r] # "absent"
    /\ fs' = [fs EXCEPT !.root[r] = "absent",
                        !.ent[r] = [n \in Names |-> "none"]]
    /\ UNCHANGED <<skills, searched, response, storeVars, execVars>>

\* a new entry of a root
PutEntry(r, n, e) ==
    /\ EnvStep
    /\ pc = "idle"
    /\ fs.root[r] = "ok"
    /\ fs.ent[r][n] = "none"
    /\ e \in EntryKinds \ {"none"}
    /\ EntryCount(fs) < MaxEntries
    /\ fs' = [fs EXCEPT !.ent[r][n] = e]
    /\ UNCHANGED <<skills, searched, response, storeVars, execVars>>

----------------------------------------------------------------------------
(* Command Executor: execute_skill. *)

\* The bytes of the text a command writes: "a" is the one byte of the letter
\* a; "c3" and "a9" are the two bytes of the UTF-8 encoding of U+00E9.
Bytes == {"a", "c3", "a9"}

\* The data chunks (Buffers) the streams deliver: a stream is cut into chunks
\* anywhere, between the two bytes of a character as well.
Chunks == {<<"a">>, <<"c3", "a9">>, <<"c3">>, <<"a9">>}

NothingWritten == [stdout |-> <<>>, stderr |-> <<>>]

\* Buffer.prototype.toString(): UTF-8 decoding of the bytes of one Buffer.
\* "E" stands for U+00E9, "#" for U+FFFD, which replaces each byte that is no
\* complete character within the Buffer.
RECURSIVE toString(_)
toString(d) ==
    IF d = <<>> THEN <<>>
    ELSE IF Head(d) = "c3" /\ Len(d) >= 2 /\ d[2] = "a9"
         THEN <<"E">> \o toString(SubSeq(d, 3, Len(d)))
    ELSE IF Head(d) \in {"c3", "a9"} THEN <<"#">> \o toString(Tail(d))
    ELSE <<Head(d)>> \o toString(Tail(d))

\* The bytes are the start of a well-formed text: whole characters, with at
\* most the first byte of a character at the end.
WellFormed(b) ==
    LET Whole(x) == \A i \in 1..Len(toString(x)) : toString(x)[i] # "#"
    IN  \/ Whole(b)
        \/ b # <<>> /\ b[Len(b)] = "c3" /\ Whole(SubSeq(b, 1, Len(b) - 1))

\* What the command line is: a command the shell runs (it writes what it
\* likes and exits with any status), a command that does not exist (the
\* shell reports it on stderr and exits with 127), or the empty string
\* (spawn throws before anything is started).
Commands == {"run", "nonexistent", "empty"}

\* The status a command exits with on its own; "null" is the code of a child
\* that a signal ended.
ExitCodes(cmd) == IF cmd = "run" THEN {"0", "7"} ELSE {"127"}

NoOutcome == [kind |-> "none"]

\* stdout || "(no output)"
OrNoOutput(out) == IF out = <<>> THEN <<"(no output)">> ELSE out

\* The timeout result without the captured stderr.
TimeoutOutcomeNoStderr(out, err) ==
    [isError |-> TRUE,
     text |-> <<"Command timed out after 60s", "STDOUT:", out, "STDERR:", <<>> >>]

TimeoutOutcome(out, err) ==
    [isError |-> TRUE,
     text |-> <<"Command timed out after 60s", "STDOUT:", out, "STDERR:", err>>]

\* The result the close handler resolves with.
CloseOutcome(code, out, err) ==
    IF code # "0"
    THEN [isError |-> TRUE,
          text |-> <<"Exit code: ", code, "STDERR:", err, "STDOUT:", out>>]
    ELSE [isError |-> FALSE, text |-> <<OrNoOutput(out)>>]

\* The result the error handler resolves with: err.message.
ErrorOutcome == [isError |-> TRUE, text |-> << <<"spawn /bin/sh ENOENT">> >>]

\* A result holder that every call overwrites (a callback flag, not a promise).
ResolveAgain(value) ==
    /\ callState' = "resolved"
    /\ outcome' = value
    /\ response' = value

\* resolve(value) of the promise: only the first call settles it.
Resolve(value) ==
    IF callState = "pending"
    THEN /\ callState' = "resolved"
         /\ outcome' = value
         /\ response' = value
    ELSE UNCHANGED <<callState, outcome, response>>

\* A handler that leaves the timer running.
KeepTimeout(t) == t

\* clearTimeout(timeout): a timer that has fired stays fired.
ClearTimeout(t) == IF t = "pending" THEN "cleared" ELSE t

\* execute_skill with code = cmd; shellStarts tells whether the shell can be
\* started.  spawn("") throws inside the promise executor: the promise is
\* rejected, the await throws and the handler's catch returns the error.
ExecuteSkill(cmd, shellStarts) ==
    /\ process = "running"
    /\ callState = "idle"
    /\ command' = cmd
    /\ last' = Did("execute", <<>>)
    /\ written' = NothingWritten
    /\ UNCHANGED <<textVars, logged, peerCache>>
    /\ IF cmd = "empty"
       THEN /\ callState' = "resolved"
            /\ outcome' = Caught(<<"The argument 'file' cannot be empty">>)
            /\ response' = outcome'
            /\ UNCHANGED <<child, pipes, timer>>
       ELSE /\ callState' = "pending"
            /\ child' = IF shellStarts THEN "running" ELSE "spawnfail"
            /\ pipes' = TRUE
            /\ timer' = "pending"
            /\ UNCHANGED <<outcome, response>>
    /\ stdout' = <<>>
    /\ stderr' = <<>>
    /\ UNCHANGED <<fs, skills, searched, storeVars, exitCode, holders,
                   emitted, produced>>

ExecFrame == UNCHANGED <<fs, pc, skills, searched, storeVars, command>>

\* The shell, or a descendant that holds its streams, writes a chunk; the
\* data handler of the stream appends it.
OnData(stream, d) ==
    /\ pipes
    /\ child = "running" \/ holders
    /\ produced < MaxChunks
    /\ command = "nonexistent" => stream = "stderr"
    /\ WellFormed(written[stream] \o d)
    /\ produced' = produced + 1
    /\ written' = [written EXCEPT ![stream] = @ \o d]
    /\ IF stream = "stdout"
       THEN stdout' = stdout \o toString(d) /\ UNCHANGED stderr
       ELSE stderr' = stderr \o toString(d) /\ UNCHANGED stdout
    /\ last' = Did("data", <<>>)
    /\ UNCHANGED <<textVars, logged, peerCache>>
    /\ ExecFrame
    /\ UNCHANGED <<callState, outcome, response, child, exitCode, pipes,
                   holders, timer, emitted>>

\* The command starts a background process, which inherits the streams.
Background ==
    /\ child = "running"
    /\ command = "run"
    /\ ~holders
    /\ holders' = TRUE
    /\ last' = Did("background", <<>>)
    /\ UNCHANGED <<textVars, logged, peerCache, written>>
    /\ ExecFrame
    /\ UNCHANGED <<callState, outcome, response, child, exitCode, pipes,
                   stdout, stderr, timer, emitted, produced>>

\* The background process ends.
BackgroundExit ==
    /\ holders
    /\ holders' = FALSE
    /\ last' = Did("background-exit", <<>>)
    /\ UNCHANGED <<textVars, logged, peerCache, written>>
    /\ ExecFrame
    /\ UNCHANGED <<callState, outcome, response, child, exitCode, pipes,
                   stdout, stderr, timer, emitted, produced>>

\* The shell terminates: on its own with a status, or by a signal (the
\* SIGTERM of child.kill(), or any other).  "exit-in-time" records that it
\* terminated on its own before the timer fired.
ChildExit(code) ==
    /\ child = "running"
    /\ code \in ExitCodes(command) \cup (IF command = "run" THEN {"null"} ELSE {})
    /\ child' = "exited"
    /\ exitCode' = code
    /\ emitted' = IF code # "null" /\ timer = "pending"
                  THEN emitted \cup {"exit-in-time"} ELSE emitted
    /\ last' = Did("exit", <<>>)
    /\ UNCHANGED <<textVars, logged, peerCache, written>>
    /\ ExecFrame
    /\ UNCHANGED <<callState, outcome, response, pipes, holders, stdout,
                   stderr, timer, produced>>

\* The timer callback: child.kill() and the timeout result.  A failed spawn
\* reports its error on the next tick, before any timer can fire, and a shell
\* that cannot find its command has exited and closed long before 60 s.
OnTimeout ==
    /\ timer = "pending"
    /\ child # "spawnfail"
    /\ command # "nonexistent"
    /\ timer' = "fired"
    /\ emitted' = emitted \cup {"timeout"}
    /\ Resolve(TimeoutOutcome(stdout, stderr))
    /\ last' = Did("timeout", <<>>)
    /\ UNCHANGED <<textVars, logged, peerCache, written>>
    /\ ExecFrame
    /\ UNCHANGED <<child, exitCode, pipes, holders, stdout, stderr, produced>>

\* 'close': the process has ended and its streams are closed.
OnClose ==
    /\ child = "exited"
    /\ pipes
    /\ ~holders
    /\ pipes' = FALSE
    /\ timer' = ClearTimeout(timer)
    /\ emitted' = emitted \cup {"close"}
    /\ Resolve(CloseOutcome(exitCode, stdout, stderr))
    /\ last' = Did("close", <<>>)
    /\ UNCHANGED <<textVars, logged, peerCache, written>>
    /\ ExecFrame
    /\ UNCHANGED <<child, exitCode, holders, stdout, stderr, produced>>

\* 'error': the shell could not be started ('close' follows, with the
\* negative errno as the code).
OnError ==
    /\ child = "spawnfail"
    /\ child' = "exited"
    /\ exitCode' = "-2"
    /\ timer' = ClearTimeout(timer)
    /\ emitted' = emitted \cup {"error"}
    /\ Resolve(ErrorOutcome)
    /\ last' = Did("error", <<>>)
    /\ UNCHANGED <<textVars, logged, peerCache, written>>
    /\ ExecFrame
    /\ UNCHANGED <<pipes, holders, stdout, stderr, produced>>

----------------------------------------------------------------------------
(* The specification of enumerate and load: one request on any filesystem. *)

\* The names load_skill is called with: the bundle names, and the display
\* name of docNamed, which is no bundle name.
LoadNames == Names \cup {<<"x">>}

\* No extractYamlField call is under study.
TextIdle ==
    /\ document = <<>>
    /\ wanted = <<>>
    /\ extracted = <<>>
    /\ logged = {}
    /\ peerCache = <<>>
    /\ written = NothingWritten

ExecIdle ==
    /\ callState = "idle"
    /\ outcome = NoOutcome
    /\ child = "none"
    /\ command = "none"
    /\ exitCode = "none"
    /\ pipes = FALSE
    /\ holders = FALSE
    /\ stdout = <<>>
    /\ stderr = <<>>
    /\ timer = "none"
    /\ emitted = {}
    /\ produced = 0

Init ==
    /\ fs = EmptyFs(FALSE)
    /\ pc = "idle"
    /\ skills = <<>>
    /\ searched = <<>>
    /\ response = NoResponse
    /\ last = Did("init", <<>>)
    /\ skillCache = <<>>
    /\ cacheFile = NoFile
    /\ clock = 0
    /\ process = "running"
    /\ ExecIdle
    /\ TextIdle

\* load_skill as the one request of a behaviour
RequestLoad(n) ==
    /\ pc = "idle"
    /\ pc' = "done"
    /\ LoadSkill(n)

\* execute_skill as the one request of a behaviour.  It reads nothing of the
\* skill roots, so it is explored on the initial filesystem only.
RequestExecute(cmd, shellStarts) ==
    /\ pc = "idle"
    /\ fs = EmptyFs(FALSE)
    /\ pc' = "exec"
    /\ ExecuteSkill(cmd, shellStarts)

ExecEvents ==
    \/ \E stream \in {"stdout", "stderr"}, d \in Chunks : OnData(stream, d)
    \/ Background
    \/ BackgroundExit
    \/ \E code \in {"0", "7", "127", "null"} : ChildExit(code)
    \/ OnTimeout
    \/ OnClose
    \/ OnError

Next ==
    \/ \E r \in Roots, kind \in RootKinds : MkRoot(r, kind)
    \/ \E r \in Roots : RmRoot(r)
    \/ \E r \in Roots, n \in Names, e \in EntryKinds : PutEntry(r, n, e)
    \/ ListBuild
    \/ ListRespond
    \/ \E n \in LoadNames : RequestLoad(n)
    \/ \E cmd \in Commands, b \in BOOLEAN : RequestExecute(cmd, b)
    \/ ExecEvents

Spec == Init /\ [][Next]_vars

\* execute_skill alone.
ExecNext ==
    \/ \E cmd \in Commands, b \in BOOLEAN : RequestExecute(cmd, b)
    \/ ExecEvents

ExecSpec == Init /\ [][ExecNext]_vars

\* The event loop runs a due timer callback and a pending next-tick callback,
\* and a shell that cannot find its command exits and its streams close.
ExecFairSpec ==
    /\ ExecSpec
    /\ WF_vars(OnTimeout)
    /\ WF_vars(OnError)
    /\ WF_vars(command = "nonexistent" /\ (ChildExit("127") \/ OnClose))

\* Besides, the shell that child.kill() signalled ends (it does not ignore
\* SIGTERM) and the close event of an ended child whose streams nobody holds
\* is delivered.  Nothing makes a descendant of the shell end.
KillFairSpec ==
    /\ ExecFairSpec
    /\ WF_vars("timeout" \in emitted /\ ChildExit("null"))
    /\ WF_vars(OnClose)

----------------------------------------------------------------------------
(* The specification of the load record store: one server process after    *)
(* another loads skills, over a file that other programs may replace.      *)

\* pdf is a bundle of the first and of the third root, git of the third.
StoreFs ==
    [EmptyFs(FALSE) EXCEPT
        !.root[1] = "ok", !.root[3] = "ok",
        !.ent[1][NameSeq[1]] = "docNamed",
        !.ent[3][NameSeq[1]] = "docBare",
        !.ent[3][NameSeq[2]] = "docBare"]

\* What another program may leave in CACHE_FILE: nothing, a text that is not
\* JSON, null, a number, an array of one load record.
ExternalFiles ==
    {NoFile, Garbage, JsonNull, JsonNumber,
     JsonArray(<<LoadRecord(NameSeq[2], SkillPath(SearchPaths[3], NameSeq[2]), 0)>>)}

StoreInit ==
    /\ fs = StoreFs
    /\ pc = "idle"
    /\ skills = <<>>
    /\ searched = <<>>
    /\ response = NoResponse
    /\ last = Did("init", <<>>)
    /\ skillCache = <<>>
    /\ cacheFile = NoFile
    /\ clock = 0
    /\ process = "running"
    /\ ExecIdle
    /\ TextIdle

\* load_skill, any number of times
StoreLoad(n) ==
    /\ LoadSkill(n)
    /\ UNCHANGED pc

\* Time passes.
Tick ==
    /\ clock < MaxClock
    /\ clock' = clock + 1
    /\ last' = Did("tick", <<>>)
    /\ UNCHANGED <<textVars, logged, peerCache, written>>
    /\ UNCHANGED <<fs, pc, skills, searched, response, skillCache, cacheFile,
                   process, execVars>>

\* The server process is started again: the module's top-level code runs.
Restart ==
    /\ skillCache' = LoadCacheFile(cacheFile)
    /\ process' = "running"
    /\ last' = Did("start", <<>>)
    /\ UNCHANGED <<textVars, logged, peerCache, written>>
    /\ UNCHANGED <<fs, pc, skills, searched, response, cacheFile, clock, execVars>>

\* Another program replaces CACHE_FILE.
ExternalWrite(file) ==
    /\ cacheFile' = file
    /\ last' = Did("env", <<>>)
    /\ UNCHANGED <<textVars, logged, peerCache, written>>
    /\ UNCHANGED <<fs, pc, skills, searched, response, skillCache, clock,
                   process, execVars>>

StoreNext ==
    \/ \E n \in LoadNames : StoreLoad(n)
    \/ Tick
    \/ Restart
    \/ \E file \in ExternalFiles : ExternalWrite(file)
    \/ \E r \in Roots : RmRoot(r)

StoreSpec == StoreInit /\ [][StoreNext]_vars

----------------------------------------------------------------------------
(* The specification of two server processes that share CACHE_FILE: each    *)
(* holds its own skillCache, read from the file when the process starts.    *)

\* The second process starts: its top-level code reads CACHE_FILE.
PeerStart ==
    /\ peerCache' = LoadCacheFile(cacheFile)
    /\ last' = Did("peer-start", <<>>)
    /\ UNCHANGED <<fs, pc, skills, searched, response, storeVars, execVars,
                   textVars, logged, written>>

\* load_skill with skill_name = n handled by the second process.
PeerLoad(n) ==
    /\ LET r == loadSkillDirect(fs, n)
       IN  IF r.threw
           THEN /\ last' = Did("peer-failed", n)
                /\ UNCHANGED <<peerCache, cacheFile>>
           ELSE LET cache == MapSet(peerCache, r.skillName,
                                    LoadRecord(r.skillName, r.baseDir, clock))
                IN  /\ peerCache' = cache
                    /\ \E w \in WriteOutcomes(cacheFile, Serialize(cache)) :
                          /\ cacheFile' = w.file
                          /\ last' = Did(IF w.threw THEN "peer-failed" ELSE "peer-load", n)
    /\ UNCHANGED <<fs, pc, skills, searched, response, skillCache, clock, process,
                   execVars, textVars, logged, written>>

PeerNext ==
    \/ \E n \in Names : StoreLoad(n)
    \/ Restart
    \/ PeerStart
    \/ \E n \in Names : PeerLoad(n)
    \/ Tick

PeerSpec == StoreInit /\ [][PeerNext]_vars

----------------------------------------------------------------------------
(* The single-directory variant (src/openskills.js): list_skills and        *)
(* load_skill take the directory as the argument skills_dir.                *)

DescriptionField == <<"d", "e", "s", "c", "r", "i", "p", "t", "i", "o", "n">>

\* The skills_dir arguments: with the home shorthand, relative to the working
\* directory, and absolute.
DirArgs ==
    {<<"~", ".agent", "skills">>, <<".claude", "skills">>,
     <<"home", ".agent", "skills">>}

\* skillsDir.startsWith("~") ? path.join(os.homedir(), skillsDir.slice(1)) : skillsDir
expandedDir(skillsDir) ==
    IF Head(skillsDir) = "~" THEN <<"home">> \o Tail(skillsDir) ELSE skillsDir

\* path.resolve(expandedDir)
absoluteDir(skillsDir) ==
    LET e == expandedDir(skillsDir)
    IN  IF Head(e) \in {"home", "cwd"} THEN e ELSE <<"cwd">> \o e

\* The roots the arguments denote.
DirRoots == {RootOf(absoluteDir(a)) : a \in DirArgs}

DirEntryKinds == {"none", "file", "dir", "unreadable"} \cup DirDocIds

\* Whether findSkillsInDir pushes the entry skillName of dir.
DirAccepts(f, dir, skillName) ==
    /\ f.ent[RootOf(dir)][skillName] \notin {"none", "file"}
    /\ existsSkillMd(f, dir, skillName)
    /\ ~readFails(f, dir, skillName)
    /\ LET rawDescription ==
               extractYamlField(readFileSync(f, dir, skillName), DescriptionField)
       IN  /\ rawDescription # Null
           /\ rawDescription # <<>>
           /\ Trim(rawDescription) # <<>>

DirEntry(f, dir, skillName) ==
    LET content == readFileSync(f, dir, skillName)
    IN  [name        |-> OrElse(extractYamlField(content, <<"n", "a", "m", "e">>),
                                skillName),
         description |-> OrElse(extractYamlField(content, DescriptionField), <<>>),
         path        |-> SkillPath(dir, skillName)]

\* The loop of findSkillsInDir, from the i-th entry on.
RECURSIVE DirScan(_, _, _, _)
DirScan(f, dir, i, found) ==
    IF i > Len(NameSeq) THEN found
    ELSE DirScan(f, dir, i + 1,
            IF DirAccepts(f, dir, NameSeq[i])
            THEN Append(found, DirEntry(f, dir, NameSeq[i]))
            ELSE found)

\* findSkillsInDir: the array it returns, or the message of the error it throws.
findSkillsInDir(f, skillsDir) ==
    LET dir == absoluteDir(skillsDir)
    IN  IF ~existsSync(f, dir)
        THEN [threw |-> TRUE,
              message |-> <<"Skills directory does not exist: ", dir>>]
        ELSE IF readdirFails(f, dir)
        THEN [threw |-> TRUE, message |-> <<"Failed to read directory ", dir>>]
        ELSE [threw |-> FALSE, skills |-> DirScan(f, dir, 1, <<>>)]

\* findSkillInDir: found = FALSE models the null it returns.
findSkillInDir(f, skillName, skillsDir) ==
    LET dir == absoluteDir(skillsDir)
    IN  IF existsSkillMd(f, dir, skillName)
        THEN [found |-> TRUE, dir |-> dir, skillPath |-> SkillPath(dir, skillName)]
        ELSE [found |-> FALSE]

loadSkillFromDir(f, skillName, skillsDir) ==
    LET found == findSkillInDir(f, skillName, skillsDir)
    IN  IF ~found.found
        THEN [threw |-> TRUE,
              message |-> <<"Skill not found in: ", skillName, skillsDir>>]
        ELSE IF readFails(f, found.dir, skillName)
        THEN [threw |-> TRUE, message |-> <<"read failed: ", found.skillPath>>]
        ELSE [threw     |-> FALSE,
              skillName |-> skillName,
              baseDir   |-> found.skillPath,
              content   |-> Trim(readFileSync(f, found.dir, skillName))]

DidIn(op, name, dir) == [op |-> op, name |-> name, dir |-> dir]

\* list_skills with skills_dir = a.
DirList(a) ==
    /\ pc = "idle"
    /\ process = "running"
    /\ LET r == findSkillsInDir(fs, a)
       IN  IF r.threw
           THEN /\ response' = Caught(r.message)
                /\ skills' = <<>>
           ELSE /\ skills' = r.skills
                /\ response' =
                      IF Len(r.skills) = 0
                      THEN Ok(<<"No skills found in: ", absoluteDir(a)>>)
                      ELSE Ok(<<"Available Skills in ", absoluteDir(a), Len(r.skills),
                                [i \in 1..Len(r.skills) |->
                                    <<r.skills[i].name, r.skills[i].description>>]>>)
    /\ searched' = <<absoluteDir(a)>>
    /\ pc' = "done"
    /\ last' = DidIn("list", <<>>, a)
    /\ UNCHANGED <<textVars, logged, peerCache, written>>
    /\ UNCHANGED <<fs, storeVars, execVars>>

\* load_skill with skill_name = n and skills_dir = a.
DirLoad(n, a) ==
    /\ pc = "idle"
    /\ process = "running"
    /\ LET r == loadSkillFromDir(fs, n, a)
       IN  IF r.threw
           THEN /\ response' = Caught(r.message)
                /\ UNCHANGED <<skillCache, cacheFile>>
           ELSE LET cache == MapSet(skillCache, r.skillName,
                                    LoadRecord(r.skillName, r.baseDir, clock))
                IN  /\ skillCache' = cache
                    /\ \E w \in WriteOutcomes(cacheFile, Serialize(cache)) :
                          /\ cacheFile' = w.file
                          /\ response' =
                                IF w.threw
                                THEN Caught(<<"write failed: ", "CACHE_FILE">>)
                                ELSE Ok(<<"SKILL_BASE_DIR", r.baseDir, r.content>>)
    /\ pc' = "done"
    /\ last' = DidIn("load", n, a)
    /\ UNCHANGED <<textVars, logged, peerCache, written>>
    /\ UNCHANGED <<fs, skills, searched, clock, process, execVars>>

\* a new entry of a directory
DirPutEntry(r, n, e) ==
    /\ pc = "idle"
    /\ fs.root[r] = "ok"
    /\ fs.ent[r][n] = "none"
    /\ e \in DirEntryKinds \ {"none"}
    /\ EntryCount(fs) < MaxEntries
    /\ fs' = [fs EXCEPT !.ent[r][n] = e]
    /\ last' = Did("env", <<>>)
    /\ UNCHANGED <<textVars, logged, peerCache, written>>
    /\ UNCHANGED <<pc, skills, searched, response, storeVars, execVars>>

DirNext ==
    \/ \E r \in DirRoots, kind \in RootKinds : MkRoot(r, kind)
    \/ \E r \in DirRoots : RmRoot(r)
    \/ \E r \in DirRoots, n \in Names, e \in DirEntryKinds : DirPutEntry(r, n, e)
    \/ \E a \in DirArgs : DirList(a)
    \/ \E n \in LoadNames, a \in DirArgs : DirLoad(n, a)

DirSpec == Init /\ [][DirNext]_vars

----------------------------------------------------------------------------
(* The specification of the Metadata Extractor: extractYamlField applied to *)
(* documents built from header lines.                                       *)

\* A header body has at most this many lines.
MaxLines == 2

NameField == <<"n", "a", "m", "e">>

\* The lines a header body is made of: a name, a name line that ends at the
\* colon, a value with a colon, an indented name line, a description, a value
\* with blanks around it, another field.
HeaderLines ==
    {<<"n", "a", "m", "e", ":", " ", "x">>,
     <<"n", "a", "m", "e", ":">>,
     <<"n", "a", "m", "e", ":", " ", "a", ":", "b">>,
     <<" ", "n", "a", "m", "e", ":", " ", "y">>,
     <<"d", "e", "s", "c", "r", "i", "p", "t", "i", "o", "n", ":", " ", "d">>,
     <<"n", "a", "m", "e", ":", " ", " ", "x", " ">>,
     <<"t", "i", "t", "l", "e", ":", " ", "t">>}

\* The bodies of 1..n lines.
RECURSIVE Bodies(_)
Bodies(n) ==
    IF n = 1 THEN HeaderLines
    ELSE Bodies(n - 1) \cup
         {b \o <<"\n">> \o l : b \in Bodies(n - 1), l \in HeaderLines}

\* What precedes the body: the delimiter line, the delimiter followed by a
\* blank, a delimiter that is not at the start of the text, nothing.
Openings ==
    {<<"-", "-", "-", "\n">>, <<"-", "-", "-", " ", "\n">>,
     <<"\n", "-", "-", "-", "\n">>, <<>>}

\* What follows it: the closing delimiter and the instructions, or nothing.
Closings == {<<"\n", "-", "-", "-", "\n", "B", "\n">>, <<>>}

Documents ==
    {o \o b \o c : o \in Openings, b \in Bodies(MaxLines), c \in Closings}

ExtractInit ==
    /\ fs = EmptyFs(FALSE)
    /\ pc = "idle"
    /\ skills = <<>>
    /\ searched = <<>>
    /\ response = NoResponse
    /\ last = Did("init", <<>>)
    /\ skillCache = <<>>
    /\ cacheFile = NoFile
    /\ clock = 0
    /\ process = "running"
    /\ ExecIdle
    /\ document \in Documents
    /\ wanted \in {NameField, DescriptionField}
    /\ extracted = <<>>
    /\ logged = {}
    /\ peerCache = <<>>
    /\ written = NothingWritten

\* extractYamlField(document, wanted)
Extract ==
    /\ last.op = "init"
    /\ extracted' = extractYamlField(document, wanted)
    /\ last' = Did("extract", <<>>)
    /\ UNCHANGED <<fs, pc, skills, searched, response, storeVars, execVars,
                   document, wanted, logged, peerCache, written>>

ExtractNext == Extract

ExtractSpec == ExtractInit /\ [][ExtractNext]_vars

----------------------------------------------------------------------------
(* Claims about enumerate and load (Spec). *)

\* The existing roots under which <root>/n/SKILL.md exists.
HolderRoots(f, n) ==
    {r \in Roots : /\ n \in Names
                   /\ f.root[r] # "absent"
                   /\ f.ent[r][n] \in {"unreadable"} \cup DocIds}

\* The listable roots under which <root>/n/SKILL.md exists and can be read.
ReadableRoots(f, n) ==
    {r \in Roots : f.root[r] = "ok" /\ f.ent[r][n] \in DocIds}

\* The catalog entries whose bundle directory is named n.
EntriesOf(sk, n) == {i \in 1..Len(sk) : sk[i].path[Len(sk[i].path)] = n}

BundlePath(r, n) == SkillPath(SearchPaths[r], n)

\* C1 as stated: after findAllSkills, every name n has at most one catalog
\* entry, and an entry of n lies under the highest-priority existing root
\* that holds n/SKILL.md.
C1_Original ==
    pc = "built" =>
        \A n \in Names :
            /\ Cardinality(EntriesOf(skills, n)) <= 1
            /\ HolderRoots(fs, n) # {} =>
                  \A i \in EntriesOf(skills, n) :
                      skills[i].path = BundlePath(Min(HolderRoots(fs, n)), n)

\* C1 amended: after findAllSkills, every name n has at most one catalog
\* entry; it has one exactly when some listable root holds a readable
\* n/SKILL.md, and the entry then lies under the highest-priority such root
\* (a root whose n/SKILL.md cannot be read is passed over, not shadowing).
C1_Enumerate ==
    pc = "built" =>
        \A n \in Names :
            /\ Cardinality(EntriesOf(skills, n)) <= 1
            /\ ReadableRoots(fs, n) = {} => EntriesOf(skills, n) = {}
            /\ ReadableRoots(fs, n) # {} =>
                  /\ EntriesOf(skills, n) # {}
                  /\ \A i \in EntriesOf(skills, n) :
                        skills[i].path = BundlePath(Min(ReadableRoots(fs, n)), n)

\* C1 witness: a catalog was built while two roots held a readable bundle of
\* the same name.
C1_Witness ==
    /\ pc = "built"
    /\ \E n \in Names : Cardinality(ReadableRoots(fs, n)) >= 2

C9_Claim ==
    (last.op = "list" /\ Len(skills) = 0) =>
        /\ ~response.isError
        /\ response.text = <<"No skills found. Skills directories checked:", searched>>

\* C10: load of a name that no existing root holds returns the structured
\* failure "Skill not found: n"; every list, load and execute result carries
\* the flag (set exactly on the failures), and the process keeps running.
C10_Structured ==
    /\ process = "running"
    /\ (last.op = "load" /\ HolderRoots(fs, last.name) = {}) =>
          /\ response.isError
          /\ response.text = <<"Error: ", <<"Skill not found: ", last.name>> >>
    /\ last.op = "load" =>
          /\ response.isError \in BOOLEAN
          /\ response.isError <=> response.text[1] = "Error: "
    /\ last.op = "list" => ~response.isError
    /\ callState = "resolved" =>
          /\ response = outcome
          /\ response.isError \in BOOLEAN
          /\ ~response.isError <=>
                ("close" \in emitted /\ exitCode = "0" /\ "timeout" \notin emitted)

\* C10 witness: a load failed with "Skill not found" although a listable root
\* holds a directory of that name (without SKILL.md).
C10_Witness ==
    /\ last.op = "load"
    /\ response.isError
    /\ response.text[2][1] = "Skill not found: "
    /\ \E r \in Roots : fs.root[r] = "ok" /\ last.name \in Names
                        /\ fs.ent[r][last.name] = "dir"

----------------------------------------------------------------------------
(* Claims about execute (ExecSpec, ExecFairSpec). *)

TimedOutText == "Command timed out after 60s"

\* C3: within one execute call the outcome, once produced, never changes
\* (a later close or timeout cannot replace it); the timeout callback settles
\* the call without waiting for the child; and once the close or the error
\* handler has run before the timer fired, the timer is cancelled and its
\* callback never runs.
C3_Step ==
    /\ callState = "resolved" => (callState' = "resolved" /\ outcome' = outcome)
    /\ ("timeout" \in emitted' /\ "timeout" \notin emitted) => callState' = "resolved"
    /\ ((emitted' \cap {"close", "error"}) # {} /\ "timeout" \notin emitted) =>
          (timer' = "cleared" /\ "timeout" \notin emitted')

\* C3: every step of an execute call keeps the one outcome and the timer rule.
C3_OneOutcome == [][C3_Step]_vars

\* C3 witness: the timer fired and the close event arrived afterwards; the
\* outcome is still the timeout one.
C3_Witness ==
    /\ {"timeout", "close"} \subseteq emitted
    /\ outcome.text[1] = TimedOutText

\* C4: every pending execute call is eventually settled; when the timer
\* fires the call is still pending and is settled at that step with the
\* timeout outcome, which carries the stdout and stderr captured so far.
C4_Fires ==
    (timer = "pending" /\ timer' = "fired") =>
        /\ callState = "pending"
        /\ callState' = "resolved"
        /\ outcome' = [isError |-> TRUE,
                       text |-> <<TimedOutText, "STDOUT:", stdout, "STDERR:", stderr>>]

\* C4: a pending call is eventually settled, by the timeout outcome with the
\* captured stdout and stderr when the timer fires.
C4_Timeout ==
    /\ (callState = "pending") ~> (callState = "resolved")
    /\ [][C4_Fires]_vars

\* C4 witness: a call timed out with output on both streams while the shell
\* is still running.
C4_Witness ==
    /\ callState = "resolved"
    /\ outcome.text[1] = TimedOutText
    /\ child = "running"
    /\ outcome.text[3] # <<>>
    /\ outcome.text[5] # <<>>

\* C5 as stated: a call whose child terminated on its own before the timer
\* fired yields success with stdout (or the placeholder) for status 0, and
\* the failure with the code, stderr and stdout otherwise.
C5_Claim ==
    (callState = "resolved" /\ "exit-in-time" \in emitted) =>
        outcome =
            IF exitCode = "0"
            THEN [isError |-> FALSE,
                  text |-> <<IF stdout = <<>> THEN <<"(no output)">> ELSE stdout>>]
            ELSE [isError |-> TRUE,
                  text |-> <<"Exit code: ", exitCode, "STDERR:", stderr,
                             "STDOUT:", stdout>>]

SpawnErrorResult == [isError |-> TRUE, text |-> << <<"spawn /bin/sh ENOENT">> >>]

EmptyCommandResult ==
    [isError |-> TRUE, text |-> <<"Error: ", <<"The argument 'file' cannot be empty">> >>]

\* C6 as stated: a call whose command cannot be started, a nonexistent
\* command included, yields the spawn-error outcome, and no timer is left.
C6_Original ==
    (callState = "resolved" /\ (command \in {"nonexistent", "empty"} \/ "error" \in emitted)) =>
        /\ outcome \in {SpawnErrorResult, EmptyCommandResult}
        /\ timer \in {"none", "cleared"}

\* C6 amended: a call whose shell cannot be started yields the spawn-error
\* outcome with the failure description, never a timeout, and the timer is
\* cancelled when it is reported; an empty command line makes spawn throw and
\* yields the handler's error result with no timer set; a nonexistent command
\* is started through the shell and yields the non-zero-exit outcome with the
\* shell's status 127.
C6_SpawnError ==
    /\ "error" \in emitted =>
          /\ callState = "resolved"
          /\ outcome = SpawnErrorResult
          /\ timer = "cleared"
          /\ "timeout" \notin emitted
    /\ (command = "empty" /\ callState = "resolved") =>
          /\ outcome = EmptyCommandResult
          /\ timer = "none"
    /\ (command = "nonexistent" /\ callState = "resolved" /\ "error" \notin emitted) =>
          /\ exitCode = "127"
          /\ outcome = [isError |-> TRUE,
                        text |-> <<"Exit code: ", exitCode, "STDERR:", stderr,
                                   "STDOUT:", stdout>>]

\* C6 witness: the spawn error was reported and the close event that follows
\* it has been handled as well.
C6_Witness ==
    /\ {"error", "close"} \subseteq emitted
    /\ outcome = SpawnErrorResult

----------------------------------------------------------------------------
(* Claims about the load record store (StoreSpec). *)

\* C7: a successful load of n leaves n mapped to its record (the name, the
\* directory that load resolved, the time of the load) in skillCache, keeps
\* every other entry skillCache had, and leaves CACHE_FILE holding exactly
\* the whole of skillCache.
C7_Step ==
    (last'.op = "load" /\ ~response'.isError) =>
        LET n == last'.name
        IN  /\ MapHas(skillCache', n)
            /\ MapGet(skillCache', n) =
                  [name |-> n,
                   baseDir |-> BundlePath(Min(HolderRoots(fs', n)), n),
                   loadedAt |-> clock']
            /\ response'.text[3] = MapGet(skillCache', n).baseDir
            /\ \A k \in MapKeys(skillCache) :
                  /\ MapHas(skillCache', k)
                  /\ k # n => MapGet(skillCache', k) = MapGet(skillCache, k)
            /\ cacheFile'.kind = "object"
            /\ cacheFile'.props = skillCache'
            /\ LoadCacheFile(cacheFile') = skillCache'

\* C7: every successful load step records the entry and rewrites the file in full.
C7_Recorded == [][C7_Step]_vars

\* C7 witness: a load has just succeeded in a process whose store holds an
\* earlier entry of another name, all of it in the file.
C7_Witness ==
    /\ last.op = "load"
    /\ ~response.isError
    /\ Len(skillCache) >= 2
    /\ cacheFile = JsonObject(skillCache)

\* C8 as stated: after a start, a file that holds a mapping is reproduced
\* (the same name and baseDir under every key), and any other file gives an
\* empty store.
C8_Claim ==
    last.op = "start" =>
        IF cacheFile.kind = "object"
        THEN \A i \in 1..Len(cacheFile.props) :
                LET k == cacheFile.props[i][1]
                IN  /\ MapHas(skillCache, k)
                    /\ MapGet(skillCache, k).name = cacheFile.props[i][2].name
                    /\ MapGet(skillCache, k).baseDir = cacheFile.props[i][2].baseDir
        ELSE skillCache = <<>>

----------------------------------------------------------------------------
(* Claims about the single-directory variant (DirSpec). *)

\* The starts of the header lines that begin with field and a colon.
FieldLines(yaml, field) ==
    {s \in 1..Len(yaml) :
        /\ s = 1 \/ yaml[s - 1] \in LineTerminators
        /\ IsAt(yaml, s, field \o <<":">>)}

\* What follows the colon on the first such line, trimmed; Null without a
\* header block or without such a line.
FieldLineValue(content, field) ==
    IF HeaderMatches(content) = {} THEN Null
    ELSE LET yaml == HeaderBody(content)
         IN  IF FieldLines(yaml, field) = {} THEN Null
             ELSE LET c == Min(FieldLines(yaml, field)) + Len(field) + 1
                  IN  Trim(SubSeq(yaml, c, LineEnd(yaml, c)))

\* The document has a description line whose value is not empty.
HasDescription(content) ==
    FieldLineValue(content, DescriptionField) \notin {Null, <<>>}

\* The root a request of the single-directory variant named.
DirOf(l) == absoluteDir(l.dir)

\* C11 as stated: in the directory a list_skills request named, a readable
\* bundle appears in the catalog exactly when its description line has a
\* non-empty value; and load_skill of a bundle without such a description,
\* against the same directory, succeeds and returns the document (granted
\* here that the load record file can be written).
C11_Claim ==
    /\ (last.op = "list" /\ ~response.isError) =>
          \A n \in Names :
              LET e == fs.ent[RootOf(DirOf(last))][n]
              IN  e \in DirDocIds =>
                    ((\E i \in 1..Len(skills) : skills[i].path = SkillPath(DirOf(last), n))
                        <=> HasDescription(DocText(e)))
    /\ (last.op = "load" /\ last.name \in Names) =>
          LET e == fs.ent[RootOf(DirOf(last))][last.name]
          IN  (fs.root[RootOf(DirOf(last))] # "absent" /\ e \in DirDocIds
                  /\ ~HasDescription(DocText(e))) =>
                \/ response.isError /\ response.text[2][1] = "write failed: "
                \/ ~response.isError /\ response.text[3] = Trim(DocText(e))

\* C12 as stated: list_skills and load_skill given a directory that does not
\* exist fail with the "directory does not exist" error, and what they return
\* lies under the directory given, never under another root.
C12_Claim ==
    /\ (last.op \in {"list", "load"} /\ ~existsSync(fs, DirOf(last))) =>
          /\ response.isError
          /\ response.text[2][1] = "Skills directory does not exist: "
    /\ last.op = "list" =>
          \A i \in 1..Len(skills) :
              SubSeq(skills[i].path, 1, Len(DirOf(last))) = DirOf(last)
    /\ (last.op = "load" /\ ~response.isError) =>
          SubSeq(response.text[2], 1, Len(DirOf(last))) = DirOf(last)

----------------------------------------------------------------------------
(* Claims about the Metadata Extractor (ExtractSpec). *)

\* C13 as stated: extractYamlField returns what follows the colon on the
\* first header line that begins with the field name and a colon, trimmed,
\* with later colons kept and nothing taken from another line (for a line
\* that ends at the colon both the empty text and absent are accepted here);
\* it returns absent without a header block or without such a line.
C13_Claim ==
    last.op = "extract" =>
        LET v == FieldLineValue(document, wanted)
        IN  IF v = <<>> THEN extracted \in {<<>>, Null} ELSE extracted = v

----------------------------------------------------------------------------
(* Claims about failures during the catalog build (Spec). *)

\* C14 as stated: a catalog build is never aborted by a root that cannot be
\* listed; such a root is skipped with its failure logged; and every name
\* with a readable bundle in a listable root is returned, from the highest
\* priority such root.
C14_Claim ==
    pc = "built" =>
        /\ process = "running"
        /\ \A r \in Roots :
              fs.root[r] = "unlistable" =>
                  \E l \in logged : SubSeq(l.path, 1, Len(SearchPaths[r])) = SearchPaths[r]
        /\ \A n \in Names :
              ReadableRoots(fs, n) # {} =>
                  \E i \in 1..Len(skills) :
                      skills[i].path = BundlePath(Min(ReadableRoots(fs, n)), n)

----------------------------------------------------------------------------
(* Claims about the processes a timed-out command leaves (KillFairSpec). *)

\* C15 as stated: once the timer has fired, eventually neither the shell nor
\* any descendant of it is running.
C15_Claim ==
    ("timeout" \in emitted) ~> (child # "running" /\ ~holders)

----------------------------------------------------------------------------
(* Claims about the load records of concurrent processes (PeerSpec). *)

\* The skill names CACHE_FILE holds an entry for.
FileKeys(file) == IF file.kind = "object" THEN MapKeys(file.props) ELSE {}

\* A successful load or a start, of either process.
LoadOrStart(l) == l.op \in {"load", "start", "peer-load", "peer-start"}

\* C16 as stated: an entry of CACHE_FILE stays in it over every later load
\* that succeeds and every restart, those of a second server process
\* included.
C16_Original ==
    [][(LoadOrStart(last') /\ (last'.op = "load" => ~response'.isError)) =>
          FileKeys(cacheFile) \subseteq FileKeys(cacheFile')]_vars

\* C16 amended: a load that succeeds rewrites CACHE_FILE with the whole Map of
\* the process that handles it: every entry that process has loaded or read
\* at its start stays in the file, and an entry only another process wrote
\* since then is dropped (the last writer wins); a start leaves the file as
\* it is and reads every entry of it.
C16_Step ==
    /\ (last'.op = "load" /\ ~response'.isError) =>
          /\ MapKeys(skillCache) \subseteq FileKeys(cacheFile')
          /\ FileKeys(cacheFile') = MapKeys(skillCache) \cup {last'.name}
    /\ last'.op = "peer-load" =>
          /\ MapKeys(peerCache) \subseteq FileKeys(cacheFile')
          /\ FileKeys(cacheFile') = MapKeys(peerCache) \cup {last'.name}
    /\ last'.op = "start" =>
          /\ cacheFile' = cacheFile
          /\ \A k \in FileKeys(cacheFile) :
                MapHas(skillCache', k) /\ MapGet(skillCache', k) = MapGet(cacheFile.props, k)
    /\ last'.op = "peer-start" =>
          /\ cacheFile' = cacheFile
          /\ \A k \in FileKeys(cacheFile) :
                MapHas(peerCache', k) /\ MapGet(peerCache', k) = MapGet(cacheFile.props, k)

\* C16 amended, over every step.
C16_Persist == [][C16_Step]_vars

\* C16 witness: a process has started over a file of two entries, which two
\* processes wrote, and holds both.
C16_Witness ==
    /\ last.op = "start"
    /\ Cardinality(FileKeys(cacheFile)) >= 2
    /\ MapKeys(skillCache) = FileKeys(cacheFile)
    /\ peerCache # <<>>

----------------------------------------------------------------------------
(* Claims about the captured output (ExecSpec). *)

\* C17 as stated: the stdout and the stderr an outcome reports are the text
\* of the chunks delivered on the stream before the outcome was produced, in
\* arrival order, nothing lost, duplicated or reordered: the text the
\* command wrote (the placeholder standing for an empty stdout of a success).
C17_Step ==
    (callState = "pending" /\ callState' = "resolved"
        /\ last'.op \in {"timeout", "close"}) =>
        LET out == toString(written.stdout)
            err == toString(written.stderr)
        IN  IF last'.op = "timeout"
            THEN outcome'.text[3] = out /\ outcome'.text[5] = err
            ELSE IF outcome'.isError
            THEN outcome'.text[6] = out /\ outcome'.text[4] = err
            ELSE outcome'.text[1] = OrNoOutput(out)

\* C17 as stated, over every step.
C17_Claim == [][C17_Step]_vars

----------------------------------------------------------------------------
(* Claims about what changes the load record store (Spec). *)

\* C18 as stated: a load_skill request that returns a failure, and every
\* step of a list_skills or an execute_skill request, leaves skillCache and
\* CACHE_FILE as they were; and what load_skill and list_skills return is
\* computed from the filesystem alone.
C18_Step ==
    /\ (last'.op = "load" /\ response'.isError) =>
          UNCHANGED <<skillCache, cacheFile>>
    /\ last'.op \in {"build", "list", "execute", "data", "background",
                     "background-exit", "exit", "timeout", "close", "error"} =>
          UNCHANGED <<skillCache, cacheFile>>
    /\ (last'.op = "load" /\ ~response'.isError) =>
          LET r == loadSkillDirect(fs, last'.name)
          IN  response' = Ok(<<"SKILL LOADED", r.skillName, r.baseDir, r.content>>)
    /\ last'.op = "list" => response' = Ok(ListText(findAllSkills(fs), fs))

\* C18 as stated, over every step.
C18_Claim == [][C18_Step]_vars

----------------------------------------------------------------------------
(* Claims relating list_skills to load_skill (Spec). *)

\* C19 as stated: once list_skills has built its catalog and while the
\* filesystem is as it was read, load_skill with the name shown for any
\* entry of the catalog finds the skill, reads it, and reports a base
\* directory equal to the path shown for that entry.
C19_Claim ==
    pc = "built" =>
        \A i \in 1..Len(skills) :
            LET r == loadSkillDirect(fs, skills[i].name)
            IN  /\ ~r.threw
                /\ r.baseDir = skills[i].path

====
